---- MODULE Spec2Model ----
(***************************************************************************)
(* Model of src/src/App.js: the loan repayment calculator component.       *)
(*                                                                         *)
(* State: the six useState slots, the values memoised by the two useMemo   *)
(* hooks, and whether the useEffect of lines 94-98 is still to run.        *)
(*                                                                         *)
(* Numbers.  The code computes in IEEE doubles.  Here every number is an   *)
(* integer in a fixed unit, and every multiplication or division rounds    *)
(* to the nearest unit, as a double rounds to the nearest double:          *)
(*   - money (principal, pmt, balances) in units of 1/UnitsPerCent cent;   *)
(*   - the raw form fields loanAmount, balloonPayment in cents,            *)
(*     interestRate in hundredths of a percent, loanTerm in half years     *)
(*     (so that parseInt has something to truncate);                       *)
(*   - Math.pow results in units of 1/PowScale;                            *)
(*   - the strings toFixed(2) makes, as a number of cents.                 *)
(* NaN is a value of its own; no arithmetic is ever done on it.            *)
(* The amounts, rates and terms typed into the form are small enough for   *)
(* every intermediate to fit 32 bits; the rounding of the formula payment  *)
(* then shows as a few units of balance at the end of the term, as the     *)
(* rounding of doubles does in the code.                                   *)
(***************************************************************************)
EXTENDS Integers, Sequences, FiniteSets

\* ---------------------------------------------------------------- bounds

\* Longest loan term, in years, among the values typed into the form.
MaxTermYears == 2

\* ------------------------------------------------------- number modelling

\* The value parseFloat / parseInt give for an unparsable field.
NaN == -2000000000

\* Money units per cent: toFixed(2) rounds a money amount to whole cents.
UnitsPerCent == 1000

\* Units of the fixed-point value standing for a Math.pow result.
PowScale == 1000000000

\* rate = parseFloat(interestRate) / 100 / 12, interestRate in hundredths of
\* a percent: rate = interestRate / RateDen.
RateDen == 120000

isNaN(x) == x = NaN

\* <<q, r>> with a*b = q*c + r and 0 <= r < c, for 0 <= a < c and
\* 0 <= b < 2^31, computed without any intermediate above 2^31 - 1: from
\* acc, the result for the bits of b above hi, the bits hi..lo of b are taken
\* in, the high ones first, each doubling the result and adding a when set.
\* (The bits are taken as the upper half then the lower half of the range,
\* which keeps the evaluation shallow.)
RECURSIVE MulQRBits(_, _, _, _, _, _)
MulQRBits(a, b, c, hi, lo, acc) ==
  LET Double(h)  == IF h[2] >= c - h[2]
                    THEN <<2 * h[1] + 1, h[2] - (c - h[2])>>
                    ELSE <<2 * h[1], 2 * h[2]>>
      AddOnce(d) == IF d[2] >= c - a THEN <<d[1] + 1, d[2] - (c - a)>>
                                     ELSE <<d[1], d[2] + a>>
  IN  IF acc = <<0, 0>> /\ b \div 2^lo = 0 THEN <<0, 0>>
      ELSE IF hi = lo
      THEN (IF (b \div 2^lo) % 2 = 1 THEN AddOnce(Double(acc)) ELSE Double(acc))
      ELSE MulQRBits(a, b, c, (hi + lo + 1) \div 2 - 1, lo,
                     MulQRBits(a, b, c, hi, (hi + lo + 1) \div 2, acc))

MulQR(a, b, c) ==
  IF b = 0 \/ a = 0 THEN <<0, 0>>
  ELSE IF a <= 2147483647 \div b THEN <<(a * b) \div c, (a * b) % c>>
  ELSE MulQRBits(a, b, c, 30, 0, <<0, 0>>)

\* a*b/c rounded to the nearest integer (a tie away from zero), for b >= 0
\* and c > 0: the rounding of one floating-point operation.
MulDivRound(a, b, c) ==
  LET Nearest(qr) == qr[1] + (IF qr[2] >= c - qr[2] THEN 1 ELSE 0)
      Of(m)       == (m \div c) * b + Nearest(MulQR(m % c, b, c))
  IN  IF a < 0 THEN -Of(-a) ELSE Of(a)

\* ------------------------------------------------- conversions (lines 24-27, 74-77)

\* parseFloat of a money field (cents, or unparsable) as a money amount.
parseFloat(raw) == IF isNaN(raw) THEN NaN ELSE raw * UnitsPerCent

\* parseInt of the loan term field (half years, or unparsable): the digits
\* before the decimal point, so the fraction is dropped towards zero.
parseInt(raw) ==
  IF isNaN(raw) THEN NaN
  ELSE IF raw >= 0 THEN raw \div 2 ELSE -((-raw) \div 2)

\* x.toFixed(2) for a money amount x, as the number of cents the string
\* reads: the nearest cent, a tie going away from zero.
toFixed(x) ==
  IF isNaN(x) THEN NaN
  ELSE IF x < 0 THEN -((UnitsPerCent \div 2 - x) \div UnitsPerCent)
  ELSE (x + UnitsPerCent \div 2) \div UnitsPerCent

\* ------------------------------------------------- payment formula (lines 33-42)

\* Math.pow(1 + rate, n) for n >= 0, in units of 1/PowScale.
RECURSIVE Pow(_, _)
Pow(rate, n) ==
  LET Square(h) == MulDivRound(h, h, PowScale)
  IN  IF n = 0 THEN PowScale
      ELSE IF n % 2 = 1
      THEN MulDivRound(Pow(rate, n - 1), RateDen + rate, RateDen)
      ELSE Square(Pow(rate, n \div 2))

\* Math.pow(1 + rate, -n): the reciprocal, in units of 1/PowScale.
PowNeg(rate, n) == MulDivRound(PowScale, PowScale, Pow(rate, n))

\* Line 34 with the "- 1" of the denominator left out.
BasePmt_NoMinusOne(principal, rate, termInMonths) ==
  MulDivRound(principal,
              MulDivRound(rate, Pow(rate, termInMonths), RateDen),
              Pow(rate, termInMonths))

\* Line 34: principal * (rate * pow) / (pow - 1).
BasePmt(principal, rate, termInMonths) ==
  MulDivRound(principal,
              MulDivRound(rate, Pow(rate, termInMonths), RateDen),
              Pow(rate, termInMonths) - PowScale)

\* Lines 38-39: (principal - balloon / pow) * (rate / (1 - pow^-1)).
BalloonPmt(principal, rate, termInMonths, balloon) ==
  LET balloonFactor == MulDivRound(balloon, PowScale, Pow(rate, termInMonths))
      rateFx        == MulDivRound(rate, PowScale, RateDen)
      q             == MulDivRound(rateFx, PowScale,
                                   PowScale - PowNeg(rate, termInMonths))
  IN  MulDivRound(principal - balloonFactor, q, PowScale)

\* x > 0 as JavaScript evaluates it: false for NaN.
Positive(x) == ~isNaN(x) /\ x > 0

\* Lines 34-40: the formula payment, balloon-adjusted when balloon > 0.
Pmt(principal, rate, termInMonths, balloon) ==
  IF Positive(balloon)
  THEN BalloonPmt(principal, rate, termInMonths, balloon)
  ELSE BasePmt(principal, rate, termInMonths)

\* Line 42 without the test of the flag.
FinalMonthlyRepayment_IgnoresFlag(override, repayment, pmt) ==
  IF Positive(repayment) THEN repayment ELSE pmt

\* Line 42: the payment the schedule is generated with.
FinalMonthlyRepayment(override, repayment, pmt) ==
  IF override /\ Positive(repayment) THEN repayment ELSE pmt

\* ------------------------------------------------- schedule loop (lines 44-81)

\* Line 50: remainingBalance * rate.
InterestForMonth(remainingBalance, rate) ==
  MulDivRound(remainingBalance, rate, RateDen)

\* Lines 52-57 without the clamp of lines 55-57.
PrincipalForMonth_NoClamp(remainingBalance, payment, interest) ==
  payment - interest

\* Lines 52-57: the principal part of the payment, clamped to the balance.
PrincipalForMonth(remainingBalance, payment, interest) ==
  IF remainingBalance - (payment - interest) < 0
  THEN remainingBalance
  ELSE payment - interest

\* Lines 62-67: whether the balloon is taken off the balance in period i,
\* given the balance left after the period's principal.
BalloonTaken(i, termInMonths, afterPrincipal, balloon) ==
  IF i = termInMonths /\ ~isNaN(balloon) /\ afterPrincipal > balloon THEN FALSE
  ELSE i = termInMonths /\ Positive(balloon)

\* Line 49 with i < termInMonths for i <= termInMonths.
Continues_StopsOneShort(i, termInMonths, remainingBalance) ==
  i < termInMonths /\ remainingBalance > 0

\* Line 49: the loop's condition.
Continues(i, termInMonths, remainingBalance) ==
  i <= termInMonths /\ remainingBalance > 0

\* Lines 59 and 66 with line 66 assigning the balance before line 59 less
\* the balloon, so that the final period's principal is not taken off.
NextBalance_LosesPrincipal(remainingBalance, principal, taken, balloon) ==
  IF taken THEN remainingBalance - balloon
           ELSE remainingBalance - principal

\* Lines 59 and 66: the balance after the period.
NextBalance(remainingBalance, principal, taken, balloon) ==
  IF taken THEN (remainingBalance - principal) - balloon
           ELSE remainingBalance - principal

\* Lines 72-78: the entry pushed for period i.
Entry(i, interest, principal, remaining) ==
  [ month            |-> i,
    interest         |-> toFixed(interest),
    principal        |-> toFixed(principal),
    payment          |-> toFixed(principal + interest),
    remainingBalance |-> toFixed(remaining) ]

\* Lines 50-78: one iteration of the loop, period i.  acc carries the
\* loop's variables: remainingBalance, cumulativeInterest, newSchedule, and
\* trace, the record of each iteration's unrounded locals (the entries keep
\* only strings).
Iteration(i, termInMonths, rate, balloon, payment, acc) ==
  LET Push(interest, principal, taken, remaining) ==
        [ remainingBalance   |-> remaining,
          cumulativeInterest |-> acc.cumulativeInterest + interest,
          newSchedule |-> Append(acc.newSchedule,
                                 Entry(i, interest, principal, remaining)),
          trace |-> Append(acc.trace,
            [ i                 |-> i,
              before            |-> acc.remainingBalance,
              interestForMonth  |-> interest,
              principalForMonth |-> principal,
              balloonTaken      |-> taken,
              remainingBalance  |-> remaining ]) ]
      WithTaken(interest, principal, taken) ==
        Push(interest, principal, taken,
             NextBalance(acc.remainingBalance, principal, taken, balloon))
      WithPrincipal(interest, principal) ==
        WithTaken(interest, principal,
                  BalloonTaken(i, termInMonths,
                               acc.remainingBalance - principal, balloon))
      WithInterest(interest) ==
        WithPrincipal(interest,
                      PrincipalForMonth(acc.remainingBalance, payment, interest))
  IN  WithInterest(InterestForMonth(acc.remainingBalance, rate))

\* Lines 49-81: the loop's periods lo..hi, in order, from the loop variables
\* acc.  A period runs only while the condition of line 49 holds, which is
\* also what the break of line 80 tests.  (The range is run as its first
\* half followed by its second half, which keeps the evaluation shallow;
\* the periods run are the same, in the same order.)
RECURSIVE Loop(_, _, _, _, _, _, _)
Loop(lo, hi, termInMonths, rate, balloon, payment, acc) ==
  IF ~Continues(lo, termInMonths, acc.remainingBalance) THEN acc
  ELSE IF lo = hi
  THEN Iteration(lo, termInMonths, rate, balloon, payment, acc)
  ELSE Loop((lo + hi) \div 2 + 1, hi, termInMonths, rate, balloon, payment,
            Loop(lo, (lo + hi) \div 2, termInMonths, rate, balloon, payment,
                 acc))

\* Line 26: parseInt(loanTerm) * 12.
TermInMonths(lt) == IF isNaN(parseInt(lt)) THEN NaN ELSE parseInt(lt) * 12

\* Line 29: the inputs for which no schedule is computed.
Invalid(principal, rate, termInMonths) ==
  \/ isNaN(principal) \/ isNaN(rate) \/ isNaN(termInMonths)
  \/ principal <= 0 \/ rate <= 0 \/ termInMonths <= 0

\* Lines 23-91: the first useMemo.  Besides the four values it returns, the
\* record carries the locals finalMonthlyRepayment and the loop's trace.
UseMemo(la, ir, lt, bp, repayment, override) ==
  LET Result(pmt, final, out) ==
        [ calculatedMthRepayment |-> pmt,
          finalMonthlyRepayment |-> final,
          schedule |-> out.newSchedule,
          totalInterest |-> out.cumulativeInterest,
          totalPayment |-> parseFloat(la) + out.cumulativeInterest,
          trace |-> out.trace ]
      WithFinal(pmt, final) ==
        Result(pmt, final,
               Loop(1, TermInMonths(lt), TermInMonths(lt), ir, parseFloat(bp),
                    final,
                    [ remainingBalance |-> parseFloat(la),
                      cumulativeInterest |-> 0,
                      newSchedule |-> << >>, trace |-> << >> ]))
      WithPmt(pmt) ==
        WithFinal(pmt, FinalMonthlyRepayment(override, repayment, pmt))
  IN  IF Invalid(parseFloat(la), ir, TermInMonths(lt))
      THEN [ schedule |-> << >>, totalInterest |-> 0, totalPayment |-> 0,
             calculatedMthRepayment |-> 0,
             finalMonthlyRepayment |-> 0, trace |-> << >> ]
      ELSE WithPmt(Pmt(parseFloat(la), ir, TermInMonths(lt), parseFloat(bp)))

\* ------------------------------------------------- chart data (lines 101-123)

\* schedule.slice(from + 1, to + 1): the slice taken as if the positions
\* were the 1-based months.
Slice_OneBased(s, from, to) ==
  IF from + 1 >= Len(s) THEN << >>
  ELSE IF to + 1 < Len(s) THEN SubSeq(s, from + 2, to + 1)
  ELSE SubSeq(s, from + 2, Len(s))

\* schedule.slice(from, to): the entries at the 0-based positions from..to-1.
Slice(s, from, to) ==
  IF from >= Len(s) THEN << >>
  ELSE IF to < Len(s) THEN SubSeq(s, from + 1, to)
  ELSE SubSeq(s, from + 1, Len(s))

\* yearSchedule.reduce((acc, curr) => acc + parseFloat(curr.<field>), 0),
\* the field read being the principal when ofPrincipal, else the interest.
RECURSIVE Reduce(_, _)
Reduce(s, ofPrincipal) ==
  IF s = << >> THEN 0
  ELSE (IF ofPrincipal THEN Head(s).principal ELSE Head(s).interest)
       + Reduce(Tail(s), ofPrincipal)

\* Lines 105-121: the loop from i on; i < loanTerm compares with the raw
\* field (half years here, so i < lt/2).
RECURSIVE YearlyData(_, _, _)
YearlyData(sched, lt, i) ==
  LET Year(yearSchedule) ==
        IF Len(yearSchedule) = 0 THEN << >>
        ELSE << [ year      |-> i + 1,
                  Principal |-> Reduce(yearSchedule, TRUE),
                  Interest  |-> Reduce(yearSchedule, FALSE) ] >>
             \o YearlyData(sched, lt, i + 1)
  IN  IF isNaN(lt) \/ ~(2 * i < lt) THEN << >>
      ELSE Year(Slice(sched, i * 12, i * 12 + 12))

\* Lines 101-123: the second useMemo.
ChartData(sched, lt) ==
  IF Len(sched) = 0 THEN << >> ELSE YearlyData(sched, lt, 0)

\* ------------------------------------------------- the component (lines 15-123)

VARIABLES
  loanAmount,              \* line 16: the field, in cents, or NaN
  interestRate,            \* line 17: the field, in 1/100 percent, or NaN
  loanTerm,                \* line 18: the field, in half years, or NaN
  balloonPayment,          \* line 19: the field, in cents, or NaN
  monthlyRepayment,        \* line 20: a money amount, or NaN
  overrideRepayment,       \* line 21
  schedule,                \* lines 23, 86
  totalInterest,           \* lines 23, 87
  totalPayment,            \* lines 23, 88
  calculatedMthRepayment,  \* lines 23, 89
  finalMonthlyRepayment,   \* line 42: the local of the last computation
  trace,                   \* lines 49-81: the locals of its loop iterations
  chartData,               \* line 101
  effectPending            \* lines 94-98: the effect is due to run

vars == << loanAmount, interestRate, loanTerm, balloonPayment, monthlyRepayment,
           overrideRepayment, schedule, totalInterest, totalPayment,
           calculatedMthRepayment, finalMonthlyRepayment, trace, chartData,
           effectPending >>

params == << loanAmount, interestRate, loanTerm, balloonPayment >>

\* The values typed into the fields.
LoanAmounts     == {NaN, -500, 0, 1000}
InterestRates   == {NaN, -100, 0, 1200}
LoanTerms       == {NaN, -2} \cup (0 .. 2 * MaxTermYears)
BalloonPayments == {NaN, -300, 0, 300, 1500}
Repayments      == {NaN, 0, 2, 80, 100}

\* One render with the state la, ir, lt, bp, mr, ov: both useMemo hooks are
\* evaluated (their dependencies are the whole state), and the effect is due
\* when one of its dependencies, line 98, differs from the last render's.
Render(la, ir, lt, bp, mr, ov) ==
  \E m \in {UseMemo(la, ir, lt, bp, mr, ov)} :
      /\ loanAmount' = la
      /\ interestRate' = ir
      /\ loanTerm' = lt
      /\ balloonPayment' = bp
      /\ monthlyRepayment' = mr
      /\ overrideRepayment' = ov
      /\ schedule' = m.schedule
      /\ totalInterest' = m.totalInterest
      /\ totalPayment' = m.totalPayment
      /\ calculatedMthRepayment' = m.calculatedMthRepayment
      /\ finalMonthlyRepayment' = m.finalMonthlyRepayment
      /\ trace' = m.trace
      /\ chartData' = ChartData(m.schedule, lt)
      /\ effectPending' = ( m.calculatedMthRepayment # calculatedMthRepayment
                            \/ ov # overrideRepayment )

\* Lines 16-21 and the first render: the component mounts, and the effect is
\* due.  The built-in defaults (250000, 3.5, 30) are beyond the numbers this
\* model holds; the parameters start at any of the typed values instead.
Init ==
  \E la \in LoanAmounts, ir \in InterestRates, lt \in LoanTerms,
     bp \in BalloonPayments :
    \E m \in {UseMemo(la, ir, lt, bp, 0, FALSE)} :
        /\ loanAmount = la
        /\ interestRate = ir
        /\ loanTerm = lt
        /\ balloonPayment = bp
        /\ monthlyRepayment = 0
        /\ overrideRepayment = FALSE
        /\ schedule = m.schedule
        /\ totalInterest = m.totalInterest
        /\ totalPayment = m.totalPayment
        /\ calculatedMthRepayment = m.calculatedMthRepayment
        /\ finalMonthlyRepayment = m.finalMonthlyRepayment
        /\ trace = m.trace
        /\ chartData = ChartData(m.schedule, lt)
        /\ effectPending = TRUE

\* Line 162.  An event is handled only once the effects of the last render
\* have run.
SetLoanAmount ==
  /\ ~effectPending
  /\ \E v \in LoanAmounts :
       Render(v, interestRate, loanTerm, balloonPayment, monthlyRepayment,
              overrideRepayment)

\* Line 178.
SetInterestRate ==
  /\ ~effectPending
  /\ \E v \in InterestRates :
       Render(loanAmount, v, loanTerm, balloonPayment, monthlyRepayment,
              overrideRepayment)

\* Line 191.
SetLoanTerm ==
  /\ ~effectPending
  /\ \E v \in LoanTerms :
       Render(loanAmount, interestRate, v, balloonPayment, monthlyRepayment,
              overrideRepayment)

\* Line 205.
SetBalloonPayment ==
  /\ ~effectPending
  /\ \E v \in BalloonPayments :
       Render(loanAmount, interestRate, loanTerm, v, monthlyRepayment,
              overrideRepayment)

\* Lines 226-227: the field is disabled unless the override is on.
SetMonthlyRepayment ==
  /\ ~effectPending
  /\ overrideRepayment
  /\ \E v \in Repayments :
       Render(loanAmount, interestRate, loanTerm, balloonPayment,
              parseFloat(v), overrideRepayment)

\* Line 217.
ToggleOverride ==
  /\ ~effectPending
  /\ Render(loanAmount, interestRate, loanTerm, balloonPayment,
            monthlyRepayment, ~overrideRepayment)

\* Line 96 storing the payment as displayed, rounded to the cent.
EffectValue_Rounded(calculated) == toFixed(calculated) * UnitsPerCent

\* The value the effect stores, line 96.
EffectValue(calculated) == calculated

\* Lines 94-98 without the test of line 95.
RunEffect_NoFlagTest ==
  /\ effectPending
  /\ Render(loanAmount, interestRate, loanTerm, balloonPayment,
            EffectValue(calculatedMthRepayment), overrideRepayment)

\* Lines 94-98: the effect, and the render its state update causes.
RunEffect ==
  /\ effectPending
  /\ IF ~overrideRepayment
     THEN Render(loanAmount, interestRate, loanTerm, balloonPayment,
                 EffectValue(calculatedMthRepayment), overrideRepayment)
     ELSE /\ effectPending' = FALSE
          /\ UNCHANGED << loanAmount, interestRate, loanTerm, balloonPayment,
                          monthlyRepayment, overrideRepayment, schedule,
                          totalInterest, totalPayment, calculatedMthRepayment,
                          finalMonthlyRepayment, trace, chartData >>

Next ==
  \/ SetLoanAmount
  \/ SetInterestRate
  \/ SetLoanTerm
  \/ SetBalloonPayment
  \/ SetMonthlyRepayment
  \/ ToggleOverride
  \/ RunEffect

Spec == Init /\ [][Next]_vars


\* ------------------------------------------------- properties

\* The current computation's inputs as lines 24-27 parse them.
Principal == parseFloat(loanAmount)
Balloon   == parseFloat(balloonPayment)
Months    == TermInMonths(loanTerm)
Valid     == ~Invalid(Principal, interestRate, Months)

\* The formula payment of lines 34-40 for the current inputs.
FormulaPayment ==
  IF Positive(Balloon)
  THEN BalloonPmt(Principal, interestRate, Months, Balloon)
  ELSE BasePmt(Principal, interestRate, Months)

\* The override payment is in force (line 42).
OverrideActive == overrideRepayment /\ Positive(monthlyRepayment)

\* The last iteration of the loop, when there is one.
Last == trace[Len(trace)]

\* The values a user can type into the override payment field.
Typed == { parseFloat(v) : v \in Repayments }

\* C1: for every input set in which the principal, the rate or the term is
\* zero, negative or unparsable, or the balloon is negative, the computation
\* returns the empty result: no schedule entry, totalInterest, totalPayment
\* and the computed payment all 0.
C1_InvalidInputGivesEmptyResult ==
  ( ~Valid \/ (~isNaN(Balloon) /\ Balloon < 0) )
    => /\ schedule = << >>
       /\ totalInterest = 0
       /\ totalPayment = 0
       /\ calculatedMthRepayment = 0

\* C5: when inputs are valid, the payment the schedule is generated with is
\* the override payment if the flag is set and the override payment is a
\* number > 0, and the formula payment (base, or balloon-adjusted when the
\* balloon is > 0) in every other case; the computed payment returned is the
\* formula payment of the current principal, rate, term and balloon whatever
\* the flag and the override payment are.
C5_EffectivePayment ==
  Valid =>
    /\ OverrideActive => finalMonthlyRepayment = monthlyRepayment
    /\ ~OverrideActive => finalMonthlyRepayment = FormulaPayment
    /\ calculatedMthRepayment = FormulaPayment

\* C5 at work: a balloon loan whose schedule runs on a typed override payment
\* that differs from the computed payment returned with it.
C5_Witness ==
  /\ Valid /\ Positive(Balloon) /\ OverrideActive
  /\ finalMonthlyRepayment = monthlyRepayment
  /\ monthlyRepayment \in Typed
  /\ calculatedMthRepayment # monthlyRepayment
  /\ Len(schedule) > 0

\* C9 as claimed: the computed payment is never written into the override
\* payment's slot, which changes only by a user's edit of the field (an edit
\* happens while no effect is due).
C9_SlotChangesOnlyByUserEdit ==
  [][ monthlyRepayment' # monthlyRepayment
        => /\ ~effectPending
           /\ overrideRepayment /\ overrideRepayment'
           /\ params' = params ]_vars

\* C9 amended: the override payment's slot changes only by a user's edit of
\* the field while the flag is on, or by the effect, which while the flag is
\* off stores the computed payment of the current inputs; and while the flag
\* is off the schedule is generated with the freshly computed payment, never
\* with the slot.
C9_SlotWrittenByEditOrEffect ==
  [][ /\ monthlyRepayment' # monthlyRepayment
           => \/ /\ ~effectPending
                 /\ overrideRepayment /\ overrideRepayment'
                 /\ params' = params
                 /\ monthlyRepayment' \in Typed
              \/ /\ effectPending /\ ~overrideRepayment /\ ~overrideRepayment'
                 /\ params' = params
                 /\ monthlyRepayment' = calculatedMthRepayment
      /\ (Valid' /\ ~overrideRepayment')
           => finalMonthlyRepayment' = calculatedMthRepayment' ]_vars

\* C9 at work: the flag is on and the schedule runs on a payment that no user
\* typed: the payment computed for earlier inputs, which the effect stored
\* and which differs from the current computed payment.
C9_Witness ==
  /\ Valid /\ ~effectPending /\ OverrideActive
  /\ monthlyRepayment \notin Typed
  /\ finalMonthlyRepayment = monthlyRepayment
  /\ monthlyRepayment # calculatedMthRepayment

\* C10: while the flag is off, a due effect writes monthlyRepayment once:
\* the render it causes has the same computed payment and the same schedule,
\* no effect is due after it, and monthlyRepayment then equals
\* calculatedMthRepayment; so in every settled state with the flag off the
\* two are equal.
C10_EffectSettlesAfterOneWrite ==
  /\ []( (~effectPending /\ ~overrideRepayment)
           => monthlyRepayment = calculatedMthRepayment )
  /\ [][ (effectPending /\ ~overrideRepayment)
           => /\ ~effectPending'
              /\ monthlyRepayment' = calculatedMthRepayment'
              /\ calculatedMthRepayment' = calculatedMthRepayment
              /\ schedule' = schedule
              /\ chartData' = chartData
              /\ params' = params ]_vars

\* C10 at work: a settled state with the flag off whose monthlyRepayment is
\* the computed payment of a loan with a schedule (it was 0 at the mount).
C10_Witness ==
  /\ Valid /\ ~effectPending /\ ~overrideRepayment
  /\ Len(schedule) > 0
  /\ monthlyRepayment # 0
  /\ monthlyRepayment = calculatedMthRepayment

\* The sum of principalForMonth over the first k iterations of the loop.
RECURSIVE PrincipalPaid(_)
PrincipalPaid(k) ==
  IF k = 0 THEN 0 ELSE PrincipalPaid(k - 1) + trace[k].principalForMonth

\* The balloon amount the loop took off the balance (0 when it took none).
BalloonSubtracted ==
  IF Len(trace) > 0 /\ Last.balloonTaken THEN Balloon ELSE 0

\* The balance never increases from one iteration to the next, and the first
\* does not exceed the principal.
NonIncreasing ==
  \A j \in 1 .. Len(trace) :
    /\ trace[j].remainingBalance <= trace[j].before
    /\ trace[j].before = IF j = 1 THEN Principal
                                  ELSE trace[j - 1].remainingBalance

\* C2 as claimed: in every schedule produced from valid parameters (any
\* balloon >= 0, any override), remainingBalance never increases from one
\* entry to the next, the first is at most the principal, and none is
\* negative.
C2_BalanceNeverIncreasesNorNegative ==
  (Valid /\ ~isNaN(Balloon) /\ Balloon >= 0)
    => /\ NonIncreasing
       /\ \A j \in 1 .. Len(trace) : trace[j].remainingBalance >= 0

\* C2 amended: in every schedule produced from valid parameters, if the
\* payment used is at least the first period's interest then
\* remainingBalance never increases from one entry to the next and the
\* first is at most the principal; and whatever the payment, a negative
\* remainingBalance occurs only in the entry of the final period
\* i = termInMonths when the balloon was subtracted there.
C2_BalanceMonotoneWhenInterestIsCovered ==
  Valid =>
    /\ finalMonthlyRepayment >= InterestForMonth(Principal, interestRate)
         => NonIncreasing
    /\ \A j \in 1 .. Len(trace) :
         trace[j].remainingBalance < 0
           => /\ j = Len(trace)
              /\ trace[j].i = Months
              /\ trace[j].balloonTaken

\* C2 at work: an override payment above the first period's interest but
\* above the balloon loan's formula payment too, so that the balloon taken
\* off in the final period leaves a negative balance after a falling one.
C2_Witness ==
  /\ Valid /\ OverrideActive /\ Len(trace) = Months /\ Months > 1
  /\ finalMonthlyRepayment >= InterestForMonth(Principal, interestRate)
  /\ Last.balloonTaken
  /\ Last.remainingBalance < 0
  /\ trace[Len(trace) - 1].remainingBalance < Principal

C4_PrincipalPlusBalloonIsPrincipal ==
  Valid =>
    /\ PrincipalPaid(Len(trace)) + BalloonSubtracted - Principal <= UnitsPerCent
    /\ Principal - (PrincipalPaid(Len(trace)) + BalloonSubtracted) <= UnitsPerCent

\* C4 amended: for every schedule produced from valid parameters, the sum of
\* principalAmount over all entries plus the balloon amount subtracted at
\* the final period (0 if none) equals the original principal less the last
\* entry's remainingBalance; so it equals the original principal exactly
\* when the schedule ends on a balance of 0.
C4_PrincipalPlusBalloonIsPrincipalLessBalance ==
  Valid =>
    /\ Len(trace) >= 1
    /\ PrincipalPaid(Len(trace)) + BalloonSubtracted
         = Principal - Last.remainingBalance

\* C4 at work: an override payment too low to amortize the loan, whose
\* schedule runs the full term and ends with more than a cent still owed,
\* and one period at least paid principal.
C4_Witness ==
  /\ Valid /\ OverrideActive /\ Len(trace) = Months
  /\ ~Last.balloonTaken
  /\ Last.remainingBalance > UnitsPerCent
  /\ PrincipalPaid(Len(trace)) > 0

\* C7: whenever the loop reaches the final period i = termInMonths with a
\* balloon > 0, the balloon is subtracted: the final entry's
\* remainingBalance is (the balance before the period - the entry's
\* principal) - balloon, whatever the payment; and in no other period is the
\* balloon subtracted.
C7_BalloonSubtractedAtFinalPeriod ==
  \A j \in 1 .. Len(trace) :
    /\ (trace[j].i = Months /\ Positive(Balloon))
         => /\ trace[j].balloonTaken
            /\ trace[j].remainingBalance
                 = (trace[j].before - trace[j].principalForMonth) - Balloon
    /\ trace[j].i # Months
         => /\ ~trace[j].balloonTaken
            /\ trace[j].remainingBalance
                 = trace[j].before - trace[j].principalForMonth

\* C8: the entries carry the months 1, 2, ..., k with k <= termInMonths;
\* every entry but the last was pushed with a balance > 0, and if
\* k < termInMonths the last was pushed with a balance <= 0.
C8_StopsAtFirstPaidOffEntry ==
  /\ Len(trace) = Len(schedule)
  /\ \A j \in 1 .. Len(schedule) : schedule[j].month = j /\ trace[j].i = j
  /\ Len(schedule) > 0 => Valid /\ Len(schedule) <= Months
  /\ \A j \in 1 .. Len(trace) - 1 : trace[j].remainingBalance > 0
  /\ (Len(trace) > 0 /\ Len(trace) < Months) => Last.remainingBalance <= 0

\* C8 at work: an override payment that pays the loan off early: the
\* schedule stops, several entries in and short of the term, at its first
\* entry with nothing owed.
C8_Witness ==
  /\ Valid /\ OverrideActive
  /\ Len(schedule) > 1 /\ Len(schedule) < Months
  /\ Last.remainingBalance <= 0
  /\ trace[Len(trace) - 1].remainingBalance > 0

\* The sum of the entries' principal (when ofPrincipal) or interest over the
\* entries at the positions in S.
RECURSIVE EntriesTotal(_, _)
EntriesTotal(S, ofPrincipal) ==
  IF S = {} THEN 0
  ELSE LET j == CHOOSE k \in S : TRUE
       IN  (IF ofPrincipal THEN schedule[j].principal
                           ELSE schedule[j].interest)
           + EntriesTotal(S \ {j}, ofPrincipal)

\* The sum of the summaries' Principal (when ofPrincipal) or Interest over
\* the first y summaries.
RECURSIVE SummariesTotal(_, _)
SummariesTotal(y, ofPrincipal) ==
  IF y = 0 THEN 0
  ELSE (IF ofPrincipal THEN chartData[y].Principal ELSE chartData[y].Interest)
       + SummariesTotal(y - 1, ofPrincipal)

\* The positions of the entries whose month falls in year y.
EntriesOfYear(y) ==
  { j \in 1 .. Len(schedule) :
      /\ schedule[j].month >= (y - 1) * 12 + 1
      /\ schedule[j].month <= y * 12 }

\* C6: the yearly aggregation of a non-empty schedule of k entries has
\* min(termYears, ceil(k/12)) summaries, numbered 1, 2, ... in order;
\* summary y totals the principal and the interest of exactly the entries
\* with month in (y-1)*12+1 .. y*12, so the summaries' totals add up to the
\* schedule's totals of the entries' principal and interest; an empty
\* schedule has no summaries.
C6_YearlySummaries ==
  LET k         == Len(schedule)
      termYears == parseInt(loanTerm)
      years     == (k + 11) \div 12
  IN  /\ k = 0 => chartData = << >>
      /\ k > 0 =>
           /\ Len(chartData) = IF termYears < years THEN termYears ELSE years
           /\ \A y \in 1 .. Len(chartData) :
                /\ chartData[y].year = y
                /\ chartData[y].Principal = EntriesTotal(EntriesOfYear(y), TRUE)
                /\ chartData[y].Interest = EntriesTotal(EntriesOfYear(y), FALSE)
           /\ SummariesTotal(Len(chartData), TRUE) = EntriesTotal(1 .. k, TRUE)
           /\ SummariesTotal(Len(chartData), FALSE) = EntriesTotal(1 .. k, FALSE)

\* C6 at work: a schedule that ends part-way through its second year, with
\* two summaries, the second of fewer than 12 entries.
C6_Witness ==
  /\ Len(schedule) > 12 /\ Len(schedule) % 12 # 0
  /\ Len(chartData) = 2
  /\ chartData[2].year = 2
  /\ chartData[2].Principal > 0
  /\ chartData[1].Interest > chartData[2].Interest

====
